---- MODULE Spec2Model ----
(***************************************************************************)
(* Stock adjustment core of the WMS inventory management service:         *)
(* the /inbound (add_stock) and /outbound (remove_stock) handlers of       *)
(* app/routers/stock.py over the stock table of app/models.py, reached     *)
(* through app/repository/stock_repository.py, and the low-stock alert of  *)
(* app/services/notification.py.                                           *)
(***************************************************************************)
EXTENDS Integers, Sequences, FiniteSets, TLC

(***************************************************************************)
(* Bounds of the model.                                                    *)
(***************************************************************************)
\* number of requests served in one behaviour
MaxCalls == 3

\* ids a request may name; Init decides which of them exist in the store
ProductIds == {1, 2}
LocationIds == {1, 2}
\* request quantities: negative, zero, and values that land on 19, 20 and 21
Quantities == {-1, 0, 1, 19, 20}

(***************************************************************************)
(* Program constants.                                                      *)
(***************************************************************************)
HTTP_200_OK == 200
HTTP_400_BAD_REQUEST == 400
HTTP_404_NOT_FOUND == 404
\* the low-stock threshold of stock.py (exclusive)
LOW_STOCK_THRESHOLD == 20

\* Python's None
None == [none |-> TRUE]

VARIABLES
    products,   \* ids of the rows of wms_schema.products
    locations,  \* ids of the rows of wms_schema.locations
    stock,      \* rows of the stock table: [product_id, location_id, quantity]
    alerts,     \* calls of send_low_stock_alert, in order, each with its argument
    response,   \* the request last served and what the handler returned for it
    calls,      \* number of requests served
    ledger,     \* per (product, location): quantities added minus quantities
                \* removed by the adjustments answered with a Stock so far
    sessions,   \* requests in flight, where handlers are followed step by step
    gateway,    \* the notification service as send_low_stock_alert meets it
    product_rows,   \* rows of wms_schema.products: [id, sku, name]
    location_rows   \* rows of wms_schema.locations: [id, aisle, bin]

vars == <<products, locations, stock, alerts, response, calls, ledger,
          sessions, gateway, product_rows, location_rows>>

\* the products and locations tables
catalog == <<products, locations, product_rows, location_rows>>

\* a str of n characters c
Repeated(c, n) == [k \in 1..n |-> c]

\* the rows found in the store at the start, for the ids found there: each
\* with a sku, or an aisle, of its own
StoredProducts(ids) == {[id |-> i, sku |-> Repeated("A", i), name |-> <<"N">>] : i \in ids}
StoredLocations(ids) == {[id |-> i, aisle |-> Repeated("A", i), bin |-> <<"B">>] : i \in ids}

(***************************************************************************)
(* Repository layer.                                                       *)
(***************************************************************************)
\* slip: the lookup answers for any id
product_get_by_id_any(product_id) == [id |-> product_id]

\* product_repo.get_by_id: the product with this id, or None
product_get_by_id(product_id) ==
    IF product_id \in products THEN [id |-> product_id] ELSE None

\* slip: the lookup answers for any id
location_get_by_id_any(location_id) == [id |-> location_id]

\* location_repo.get_by_id: the location with this id, or None
location_get_by_id(location_id) ==
    IF location_id \in locations THEN [id |-> location_id] ELSE None

\* stock_repo.get_stock: .filter(product_id, location_id).first()
get_stock(rows, product_id, location_id) ==
    LET found == {s \in rows : s.product_id = product_id /\ s.location_id = location_id}
    IN  IF found = {} THEN None ELSE CHOOSE s \in found : TRUE

\* slip: the row is inserted with the column default instead of the quantity
create_stock_default_quantity(rows, stock_data) ==
    rows \cup {[product_id |-> stock_data.product_id,
                location_id |-> stock_data.location_id,
                quantity |-> 0]}

\* stock_repo.create_stock: Stock(**stock_data); add; commit; refresh.
\* Yields the table after the commit.
create_stock(rows, stock_data) ==
    rows \cup {[product_id |-> stock_data.product_id,
                location_id |-> stock_data.location_id,
                quantity |-> stock_data.quantity]}

\* slip: the sign of quantity_change is dropped
update_stock_quantity_unsigned(rows, s, quantity_change) ==
    {IF r.product_id = s.product_id /\ r.location_id = s.location_id
        THEN [r EXCEPT !.quantity = s.quantity +
                 (IF quantity_change < 0 THEN -quantity_change ELSE quantity_change)]
        ELSE r : r \in rows}

\* slip: stock.quantity = quantity_change
update_stock_quantity_assign(rows, s, quantity_change) ==
    {IF r.product_id = s.product_id /\ r.location_id = s.location_id
        THEN [r EXCEPT !.quantity = quantity_change]
        ELSE r : r \in rows}

\* slip: the table after the commit holds the updated row alone
update_stock_quantity_matching_only(rows, s, quantity_change) ==
    {[r EXCEPT !.quantity = s.quantity + quantity_change] :
        r \in {o \in rows : o.product_id = s.product_id
                              /\ o.location_id = s.location_id}}

\* slip: the change is applied to the row as the store holds it at the commit,
\* not to the loaded object
update_stock_quantity_in_store(rows, s, quantity_change) ==
    {IF r.product_id = s.product_id /\ r.location_id = s.location_id
        THEN [r EXCEPT !.quantity = r.quantity + quantity_change]
        ELSE r : r \in rows}

\* slip: the row is matched by its product_id alone
update_stock_quantity_by_product(rows, s, quantity_change) ==
    {IF r.product_id = s.product_id
        THEN [r EXCEPT !.quantity = s.quantity + quantity_change]
        ELSE r : r \in rows}

\* stock_repo.update_stock_quantity: stock.quantity += quantity_change; commit.
\* Yields the table after the commit, in which the row with the primary key
\* of s carries the quantity computed on the loaded object s.
update_stock_quantity(rows, s, quantity_change) ==
    {IF r.product_id = s.product_id /\ r.location_id = s.location_id
        THEN [r EXCEPT !.quantity = s.quantity + quantity_change]
        ELSE r : r \in rows}

\* db.refresh(stock): the object reloaded by its primary key after the commit
refresh(rows, product_id, location_id) == get_stock(rows, product_id, location_id)

\* stock_repo.list_stock
list_stock(rows) == rows

(***************************************************************************)
(* Handlers of routers/stock.py.                                           *)
(***************************************************************************)
\* slip: operation.quantity < 0
InvalidQuantity_negative_only(quantity) == quantity < 0

\* operation.quantity <= 0
InvalidQuantity(quantity) == quantity <= 0

\* slip: the sufficiency check is missing
InsufficientStock_unchecked(s, quantity) == FALSE

\* slip: stock.quantity + 1 < operation.quantity
InsufficientStock_off_by_one(s, quantity) == s.quantity + 1 < quantity

\* slip: stock.quantity <= operation.quantity
InsufficientStock_or_equal(s, quantity) == s.quantity <= quantity

\* stock.quantity < operation.quantity
InsufficientStock(s, quantity) == s.quantity < quantity

\* slip: stock.quantity <= 20
LowStock_inclusive(s) == s.quantity <= LOW_STOCK_THRESHOLD

\* stock.quantity < 20
LowStock(s) == s.quantity < LOW_STOCK_THRESHOLD

\* JSONResponse(status_code, create_error_response(detail, ...))
ErrorResponse(status_code, detail) ==
    [status_code |-> status_code, detail |-> detail, body |-> None]

\* a returned Stock, serialised through StockResponse
StockResponse(s) ==
    [status_code |-> HTTP_200_OK, detail |-> "",
     body |-> [product_id |-> s.product_id, location_id |-> s.location_id,
               quantity |-> s.quantity]]

OkSoFar == [status_code |-> HTTP_200_OK, detail |-> "", body |-> None]

\* slip: the product is looked up before the quantity is checked
add_stock_validate_product_first(product_id, location_id, quantity) ==
    IF product_get_by_id(product_id) = None
        THEN ErrorResponse(HTTP_404_NOT_FOUND, "Product not found")
    ELSE IF InvalidQuantity(quantity)
        THEN ErrorResponse(HTTP_400_BAD_REQUEST, "Quantity must be positive")
    ELSE IF location_get_by_id(location_id) = None
        THEN ErrorResponse(HTTP_404_NOT_FOUND, "Location not found")
    ELSE OkSoFar

\* add_stock up to the first store write: the early returns, in order
add_stock_validate(product_id, location_id, quantity) ==
    IF InvalidQuantity(quantity)
        THEN ErrorResponse(HTTP_400_BAD_REQUEST, "Quantity must be positive")
    ELSE IF product_get_by_id(product_id) = None
        THEN ErrorResponse(HTTP_404_NOT_FOUND, "Product not found")
    ELSE IF location_get_by_id(location_id) = None
        THEN ErrorResponse(HTTP_404_NOT_FOUND, "Location not found")
    ELSE OkSoFar

\* slip: the outbound path checks the product as the inbound path does
remove_stock_validate_with_product(product_id, location_id, quantity) ==
    IF InvalidQuantity(quantity)
        THEN ErrorResponse(HTTP_400_BAD_REQUEST, "Quantity must be positive")
    ELSE IF product_get_by_id(product_id) = None
        THEN ErrorResponse(HTTP_404_NOT_FOUND, "Product not found")
    ELSE IF get_stock(stock, product_id, location_id) = None
        THEN ErrorResponse(HTTP_404_NOT_FOUND,
                           "No stock found for this product at the specified location")
    ELSE IF InsufficientStock(get_stock(stock, product_id, location_id), quantity)
        THEN ErrorResponse(HTTP_400_BAD_REQUEST, "Insufficient stock")
    ELSE OkSoFar

\* remove_stock up to the store write: the early returns, in order
remove_stock_validate(product_id, location_id, quantity) ==
    IF InvalidQuantity(quantity)
        THEN ErrorResponse(HTTP_400_BAD_REQUEST, "Quantity must be positive")
    ELSE IF get_stock(stock, product_id, location_id) = None
        THEN ErrorResponse(HTTP_404_NOT_FOUND,
                           "No stock found for this product at the specified location")
    ELSE IF InsufficientStock(get_stock(stock, product_id, location_id), quantity)
        THEN ErrorResponse(HTTP_400_BAD_REQUEST, "Insufficient stock")
    ELSE OkSoFar

\* send_low_stock_alert(stock): the call, recorded with the stock it was given
send_low_stock_alert(log, s) ==
    Append(log, [product_id |-> s.product_id, location_id |-> s.location_id,
                 quantity |-> s.quantity])

\* if stock.quantity < 20: send_low_stock_alert(stock)
notify_if_low(log, s) == IF LowStock(s) THEN send_low_stock_alert(log, s) ELSE log

Request(op, product_id, location_id, quantity) ==
    [op |-> op, product_id |-> product_id, location_id |-> location_id,
     quantity |-> quantity]

\* the adjustments answered with a Stock, summed per pair
Credited(op, product_id, location_id, quantity, result) ==
    IF result.status_code = HTTP_200_OK /\ result.body # None
        THEN [ledger EXCEPT ![<<product_id, location_id>>] =
                 @ + (IF op = "add_stock" THEN quantity ELSE -quantity)]
        ELSE ledger

Served(op, product_id, location_id, quantity, result) ==
    /\ response' = [request |-> Request(op, product_id, location_id, quantity),
                    status_code |-> result.status_code,
                    detail |-> result.detail,
                    body |-> result.body]
    /\ calls' = calls + 1
    /\ ledger' = Credited(op, product_id, location_id, quantity, result)

\* the store write of add_stock on the object get_stock found: the table after
\* update_stock_quantity on it, or after create_stock when there was none
add_stock_write(rows, found, product_id, location_id, quantity) ==
    LET stock_data == [product_id |-> product_id, location_id |-> location_id,
                       quantity |-> quantity]
    IN  IF found # None
          THEN update_stock_quantity(rows, found, quantity)
          ELSE create_stock(rows, stock_data)

\* the store write of remove_stock on the object get_stock found
remove_stock_write(rows, found, quantity) ==
    update_stock_quantity(rows, found, -quantity)

\* POST /inbound
add_stock(product_id, location_id, quantity) ==
    LET early == add_stock_validate(product_id, location_id, quantity)
        found == get_stock(stock, product_id, location_id)
        committed == add_stock_write(stock, found, product_id, location_id, quantity)
        result == refresh(committed, product_id, location_id)
    IN  /\ calls < MaxCalls
        /\ IF early # OkSoFar
             THEN /\ Served("add_stock", product_id, location_id, quantity, early)
                  /\ UNCHANGED <<stock, alerts>>
             ELSE /\ stock' = committed
                  /\ alerts' = notify_if_low(alerts, result)
                  /\ Served("add_stock", product_id, location_id, quantity,
                            StockResponse(result))
        /\ UNCHANGED <<catalog, sessions, gateway>>

\* POST /outbound
remove_stock(product_id, location_id, quantity) ==
    LET early == remove_stock_validate(product_id, location_id, quantity)
        found == get_stock(stock, product_id, location_id)
        committed == remove_stock_write(stock, found, quantity)
        result == refresh(committed, product_id, location_id)
    IN  /\ calls < MaxCalls
        /\ IF early # OkSoFar
             THEN /\ Served("remove_stock", product_id, location_id, quantity, early)
                  /\ UNCHANGED <<stock, alerts>>
             ELSE /\ stock' = committed
                  /\ alerts' = notify_if_low(alerts, result)
                  /\ Served("remove_stock", product_id, location_id, quantity,
                            StockResponse(result))
        /\ UNCHANGED <<catalog, sessions, gateway>>

AddStock ==
    \E p \in ProductIds, l \in LocationIds, q \in Quantities : add_stock(p, l, q)

RemoveStock ==
    \E p \in ProductIds, l \in LocationIds, q \in Quantities : remove_stock(p, l, q)

NoRequest == [request |-> Request("none", 0, 0, 0),
              status_code |-> 0, detail |-> "", body |-> None]

\* nothing credited yet
NoLedger == [pair \in ProductIds \X LocationIds |-> 0]

\* no request is followed step by step
NoSessions == <<>>

\* the notification service is not looked at
NoGateway == None

Init ==
    /\ products \in SUBSET ProductIds
    /\ locations \in SUBSET LocationIds
    /\ stock = {}
    /\ alerts = <<>>
    /\ response = NoRequest
    /\ calls = 0
    /\ ledger = NoLedger
    /\ sessions = NoSessions
    /\ gateway = NoGateway
    /\ product_rows = StoredProducts(products)
    /\ location_rows = StoredLocations(locations)

Next == AddStock \/ RemoveStock

Spec == Init /\ [][Next]_vars

(***************************************************************************)
(* Properties of the adjustment handlers.                                  *)
(***************************************************************************)
\* the rows of a table for one (product, location) pair
RowsFor(rows, product_id, location_id) ==
    {s \in rows : s.product_id = product_id /\ s.location_id = location_id}

\* the response of r is the error envelope with this status and detail
IsError(r, status_code, detail) ==
    /\ r.status_code = status_code
    /\ r.detail = detail
    /\ r.body = None

\* the response of r is a Stock for the requested pair with this quantity
IsStock(r, quantity) ==
    /\ r.status_code = 200
    /\ r.body = [product_id |-> r.request.product_id,
                 location_id |-> r.request.location_id,
                 quantity |-> quantity]

\* the step served a request and changed neither the stock table nor the alerts
NothingWritten == stock' = stock /\ alerts' = alerts

\* C1: after any sequence of add_stock and remove_stock calls, served one at a
\* time with arbitrary quantities and ids, every Stock row has quantity >= 0.
C1_QuantityNeverNegative == \A s \in stock : s.quantity >= 0

\* a row drained to 0 by an outbound call: the boundary of C1
C1_Witness ==
    /\ response.request.op = "remove_stock"
    /\ response.status_code = 200
    /\ \E s \in stock : s.quantity = 0
    /\ \E s \in stock : s.quantity > 0

\* C2: remove_stock of q > n on an existing row of quantity n fails with 400
\* 'Insufficient stock', leaves the row at exactly n and sends no notification.
C2_OverdrawRejected ==
    [][LET req == response'.request
           row == get_stock(stock, req.product_id, req.location_id)
       IN  (req.op = "remove_stock" /\ row # None /\ req.quantity > row.quantity)
           => /\ IsError(response', 400, "Insufficient stock")
              /\ get_stock(stock', req.product_id, req.location_id) = row
              /\ NothingWritten]_vars

\* an overdraw was answered: the row exists and holds less than was asked for
C2_Witness ==
    LET req == response.request
        row == get_stock(stock, req.product_id, req.location_id)
    IN  /\ req.op = "remove_stock"
        /\ row # None
        /\ req.quantity > row.quantity
        /\ row.quantity > 0
        /\ response.status_code = 400

\* C3: for q <= 0 both add_stock and remove_stock fail with 400 'Quantity must
\* be positive'; no Stock row is created or changed and no alert is sent.
C3_NonPositiveRejected ==
    [][LET req == response'.request
       IN  (req.op \in {"add_stock", "remove_stock"} /\ req.quantity <= 0)
           => /\ IsError(response', 400, "Quantity must be positive")
              /\ NothingWritten]_vars

\* an inbound call with quantity 0 on an existing product and location was
\* answered, and the pair has no row
C3_Witness ==
    LET req == response.request
    IN  /\ req.op = "add_stock"
        /\ req.quantity = 0
        /\ req.product_id \in products
        /\ req.location_id \in locations
        /\ response.status_code = 400
        /\ RowsFor(stock, req.product_id, req.location_id) = {}

\* C4: add_stock with q > 0 for an existing product and location that have no
\* Stock row creates exactly one row for the pair, with quantity q, and
\* returns it.
C4_InboundCreates ==
    [][LET req == response'.request
       IN  (/\ req.op = "add_stock"
            /\ req.quantity > 0
            /\ req.product_id \in products
            /\ req.location_id \in locations
            /\ RowsFor(stock, req.product_id, req.location_id) = {})
           => /\ RowsFor(stock', req.product_id, req.location_id)
                   = {[product_id |-> req.product_id,
                       location_id |-> req.location_id,
                       quantity |-> req.quantity]}
              /\ IsStock(response', req.quantity)]_vars

\* the first inbound call of a behaviour created the only row of the table
C4_Witness ==
    /\ calls = 1
    /\ response.request.op = "add_stock"
    /\ response.status_code = 200
    /\ Cardinality(stock) = 1

\* C5: add_stock with q > 0 on an existing row of quantity n yields n + q and
\* creates no second row; so two inbound calls q1, q2 from no row end at q1 + q2.
C5_InboundAccumulates ==
    [][LET req == response'.request
           row == get_stock(stock, req.product_id, req.location_id)
       IN  (/\ req.op = "add_stock"
            /\ req.quantity > 0
            /\ req.product_id \in products
            /\ req.location_id \in locations
            /\ row # None)
           => /\ RowsFor(stock', req.product_id, req.location_id)
                   = {[row EXCEPT !.quantity = row.quantity + req.quantity]}
              /\ IsStock(response', row.quantity + req.quantity)
              /\ Cardinality(stock') = Cardinality(stock)]_vars

\* two inbound calls of 19 and 1 on one pair, starting from no row, ended at 20
C5_Witness ==
    /\ calls = 2
    /\ response.request.op = "add_stock"
    /\ response.request.quantity = 1
    /\ IsStock(response, 20)
    /\ Cardinality(stock) = 1

\* C6: remove_stock of 0 < q <= n on an existing row of quantity n returns the
\* row with quantity n - q; q = n succeeds and leaves the row present with 0.
C6_OutboundDecrements ==
    [][LET req == response'.request
           row == get_stock(stock, req.product_id, req.location_id)
       IN  (/\ req.op = "remove_stock"
            /\ row # None
            /\ 0 < req.quantity
            /\ req.quantity <= row.quantity)
           => /\ IsStock(response', row.quantity - req.quantity)
              /\ RowsFor(stock', req.product_id, req.location_id)
                   = {[row EXCEPT !.quantity = row.quantity - req.quantity]}]_vars

\* an outbound call of the whole quantity (20 of 20) returned the row with 0
C6_Witness ==
    /\ response.request.op = "remove_stock"
    /\ response.request.quantity = 20
    /\ IsStock(response, 0)
    /\ get_stock(stock, response.request.product_id, response.request.location_id)
         = response.body

\* C7: send_low_stock_alert is called exactly once by each adjustment whose
\* resulting quantity is < 20 (0 included), and by no adjustment whose
\* resulting quantity is >= 20 (20 included); there is no de-duplication.
C7_AlertBelowThreshold ==
    [][LET req == response'.request
       IN  (req.op \in {"add_stock", "remove_stock"}
              /\ response'.status_code = 200)
           => IF response'.body.quantity < 20
                THEN alerts' = Append(alerts, response'.body)
                ELSE alerts' = alerts]_vars

\* two consecutive adjustments of one pair each ended below 20 (the second at
\* 0) and each notified; the next ended at exactly 20 and did not
C7_Witness ==
    /\ Len(alerts) = 2
    /\ alerts[1].product_id = alerts[2].product_id
    /\ alerts[1].location_id = alerts[2].location_id
    /\ alerts[2].quantity = 0
    /\ calls = 3
    /\ IsStock(response, 20)

\* C8: add_stock with q > 0 fails with 404 'Product not found' when the product
\* does not exist, and with 404 'Location not found' when the product exists
\* and the location does not; no Stock row is created and no alert is sent.
C8_InboundNotFound ==
    [][LET req == response'.request
       IN  (req.op = "add_stock" /\ req.quantity > 0)
           => /\ req.product_id \notin products
                   => /\ IsError(response', 404, "Product not found")
                      /\ NothingWritten
              /\ (req.product_id \in products /\ req.location_id \notin locations)
                   => /\ IsError(response', 404, "Location not found")
                      /\ NothingWritten]_vars

\* an inbound call on an existing product and a missing location was answered
\* with 404
C8_Witness ==
    LET req == response.request
    IN  /\ req.op = "add_stock"
        /\ req.quantity > 0
        /\ req.product_id \in products
        /\ req.location_id \notin locations
        /\ response.status_code = 404
        /\ RowsFor(stock, req.product_id, req.location_id) = {}

\* C9: remove_stock with q > 0 on a pair without a Stock row fails with 404
\* (stock not found) whether or not the product and the location exist, and
\* creates no row.
C9_OutboundStockNotFound ==
    [][LET req == response'.request
       IN  (/\ req.op = "remove_stock"
            /\ req.quantity > 0
            /\ RowsFor(stock, req.product_id, req.location_id) = {})
           => /\ IsError(response', 404,
                         "No stock found for this product at the specified location")
              /\ NothingWritten
              /\ UNCHANGED catalog]_vars

\* an outbound call naming a product and a location that do not exist was
\* answered, while another pair has a row
C9_Witness ==
    LET req == response.request
    IN  /\ req.op = "remove_stock"
        /\ req.quantity > 0
        /\ req.product_id \notin products
        /\ req.location_id \notin locations
        /\ response.status_code = 404
        /\ stock # {}

\* C10: when several preconditions fail at once the first check in the order
\* quantity, product, location (inbound) or quantity, row, sufficiency
\* (outbound) decides the error that is reported.
C10_ValidationOrder ==
    [][LET req == response'.request
           missing == req.product_id \notin products \/ req.location_id \notin locations
           norow == RowsFor(stock, req.product_id, req.location_id) = {}
       IN  /\ (req.op = "add_stock" /\ req.quantity <= 0 /\ missing)
                => IsError(response', 400, "Quantity must be positive")
           /\ (req.op = "add_stock" /\ req.quantity > 0
                 /\ req.product_id \notin products /\ req.location_id \notin locations)
                => IsError(response', 404, "Product not found")
           /\ (req.op = "remove_stock" /\ req.quantity <= 0 /\ norow)
                => IsError(response', 400, "Quantity must be positive")
           /\ (req.op = "remove_stock" /\ req.quantity > 0 /\ norow)
                => IsError(response', 404,
                           "No stock found for this product at the specified location")]_vars

\* an inbound call with both its product and its location missing was answered
\* with 404
C10_Witness ==
    LET req == response.request
    IN  /\ req.op = "add_stock"
        /\ req.quantity > 0
        /\ req.product_id \notin products
        /\ req.location_id \notin locations
        /\ response.status_code = 404

\* C13: after any sequence of adjustments applied one after another, the
\* stored quantity of a pair equals the sum of the inbound quantities minus
\* the sum of the outbound quantities of its successful adjustments; rejected
\* calls contribute nothing, and a pair without a row has had none.
C13_QuantityIsNetOfAdjustments ==
    \A p \in ProductIds, l \in LocationIds :
        IF RowsFor(stock, p, l) = {}
            THEN ledger[<<p, l>>] = 0
            ELSE \A s \in RowsFor(stock, p, l) : s.quantity = ledger[<<p, l>>]

\* inbound 20, outbound 1, then a rejected outbound 20, all on one pair,
\* leave 19
C13_Witness ==
    LET req == response.request
        row == get_stock(stock, req.product_id, req.location_id)
    IN  /\ calls = 3
        /\ req.op = "remove_stock"
        /\ req.quantity = 20
        /\ IsError(response, 400, "Insufficient stock")
        /\ row # None
        /\ row.quantity = 19
        /\ ledger[<<req.product_id, req.location_id>>] = 19

(***************************************************************************)
(* The notification service of services/notification.py, and the handlers  *)
(* followed step by step through the alert: store write, call of           *)
(* send_low_stock_alert, HTTP POST, return.                                *)
(***************************************************************************)
HTTP_500_INTERNAL_SERVER_ERROR == 500

\* the one request followed at a time
NotifySessions == {1}

\* values of os.environ.get("NOTIFICATION_SERVICE_URL")
UrlValues == {None, [value |-> ""], [value |-> "http://dummy-url"]}

\* JSON bodies the notification service answers with
SuccessBody == [status |-> "success", message |-> "Alert sent successfully"]
FailureBody == [status |-> "error", message |-> "Failed to deliver notification",
                details |-> "Simulated failure for testing"]

\* what requests.post can meet: an answer of the service (with a JSON body,
\* or with a body that is no JSON: json |-> None), or a connection error
PostOutcomes ==
    {[kind |-> "response", status_code |-> 200, json |-> SuccessBody, message |-> ""],
     [kind |-> "response", status_code |-> 500, json |-> FailureBody, message |-> ""],
     [kind |-> "response", status_code |-> 200, json |-> None, message |-> ""],
     [kind |-> "ConnectionError", status_code |-> 0, json |-> None,
      message |-> "API unreachable"]}

\* slip: the url is used whatever it is
not_url_unchecked(url) == FALSE

\* if not url
not_url(url) == url = None \/ url.value = ""

\* slip: the message embeds the threshold instead of the stock level
payload_of_threshold(s) ==
    [level |-> "Warning", category |-> "stock alerts",
     title |-> [product_id |-> s.product_id, location_id |-> s.location_id],
     message |-> [quantity |-> LOW_STOCK_THRESHOLD]]

\* the payload of the alert: title and message embed the ids and the quantity
payload(s) ==
    [level |-> "Warning", category |-> "stock alerts",
     title |-> [product_id |-> s.product_id, location_id |-> s.location_id],
     message |-> [quantity |-> s.quantity]]

\* the dict both except clauses return
DeliveryError ==
    [status |-> "error", message |-> "Failed to deliver notification",
     details |-> "Connection error"]

\* response.raise_for_status() raises HTTPError
raises_for_status(outcome) ==
    outcome.kind = "response" /\ outcome.status_code >= 400

\* slip: the catch-all except clause is missing, only HTTPError is caught
post_result_http_error_only(outcome) ==
    IF raises_for_status(outcome)
        THEN [raised |-> FALSE, logged |-> <<"exception", "alert-failed">>,
              value |-> DeliveryError]
    ELSE IF outcome.kind # "response" \/ outcome.json = None
        THEN [raised |-> TRUE, logged |-> None, value |-> None]
    ELSE [raised |-> FALSE, logged |-> None, value |-> outcome.json]

\* the try block of send_low_stock_alert on what the POST met: whether an
\* exception leaves the function, what is logged, what is returned
post_result(outcome) ==
    IF raises_for_status(outcome)
        \* except requests.exceptions.HTTPError
        THEN [raised |-> FALSE, logged |-> <<"exception", "alert-failed">>,
              value |-> DeliveryError]
    ELSE IF outcome.kind # "response" \/ outcome.json = None
        \* except Exception: the connection error, or response.json() failing
        THEN [raised |-> FALSE, logged |-> <<"exception", "alert-failed">>,
              value |-> DeliveryError]
    ELSE [raised |-> FALSE, logged |-> None, value |-> outcome.json]

\* a session that serves no request
Idle == [pc |-> "idle", request |-> Request("none", 0, 0, 0), stock |-> None]

Logged(log, entry) == IF entry = None THEN log ELSE Append(log, entry)

\* add_stock / remove_stock up to the store write and its commit
Adjust(s, op, product_id, location_id, quantity) ==
    LET early == IF op = "add_stock"
                   THEN add_stock_validate(product_id, location_id, quantity)
                   ELSE remove_stock_validate(product_id, location_id, quantity)
        found == get_stock(stock, product_id, location_id)
        committed == IF op = "add_stock"
                       THEN add_stock_write(stock, found, product_id, location_id, quantity)
                       ELSE remove_stock_write(stock, found, quantity)
        result == refresh(committed, product_id, location_id)
    IN  /\ sessions[s].pc = "idle"
        /\ calls < MaxCalls
        /\ IF early # OkSoFar
             THEN /\ Served(op, product_id, location_id, quantity, early)
                  /\ UNCHANGED <<stock, sessions>>
             ELSE /\ stock' = committed
                  /\ sessions' = [sessions EXCEPT ![s] =
                        [pc |-> IF LowStock(result) THEN "alert" ELSE "return",
                         request |-> Request(op, product_id, location_id, quantity),
                         stock |-> result]]
                  /\ UNCHANGED <<response, calls, ledger>>
        /\ UNCHANGED <<catalog, alerts, gateway>>

\* send_low_stock_alert(stock) is called: the url is read; without one the
\* call logs and returns None, with one the payload is POSTed
AlertCall(s) ==
    /\ sessions[s].pc = "alert"
    /\ alerts' = send_low_stock_alert(alerts, sessions[s].stock)
    /\ IF not_url(gateway.url)
         THEN /\ gateway' = [gateway EXCEPT
                    !.log = Append(@, <<"critical", "notification-url-undefined">>),
                    !.returned = None]
              /\ sessions' = [sessions EXCEPT ![s].pc = "return"]
         ELSE /\ gateway' = [gateway EXCEPT
                    !.posts = Append(@, payload(sessions[s].stock))]
              /\ sessions' = [sessions EXCEPT ![s].pc = "post"]
    /\ UNCHANGED <<catalog, stock, response, calls, ledger>>

\* requests.post returns or raises: the service answered or the connection
\* failed. The call carries no timeout: a service that stays silent ends it never.
PostReturns(s) ==
    /\ sessions[s].pc = "post"
    /\ gateway.endpoint = "responsive"
    /\ \E outcome \in PostOutcomes :
         LET r == post_result(outcome)
         IN  /\ gateway' = [gateway EXCEPT !.outcome = outcome,
                                           !.log = Logged(@, r.logged),
                                           !.returned = r.value]
             /\ sessions' = [sessions EXCEPT ![s].pc =
                                IF r.raised THEN "raise" ELSE "return"]
    /\ UNCHANGED <<catalog, stock, alerts, response, calls, ledger>>

\* the handler returns its Stock; an exception that left send_low_stock_alert
\* is answered by general_exception_handler
Return(s) ==
    LET req == sessions[s].request
    IN  /\ sessions[s].pc \in {"return", "raise"}
        /\ Served(req.op, req.product_id, req.location_id, req.quantity,
                  IF sessions[s].pc = "raise"
                    THEN ErrorResponse(HTTP_500_INTERNAL_SERVER_ERROR,
                                       "Internal server error")
                    ELSE StockResponse(sessions[s].stock))
        /\ sessions' = [sessions EXCEPT ![s] = Idle]
        /\ UNCHANGED <<catalog, stock, alerts, gateway>>

NotifyAdjust ==
    \E s \in NotifySessions, op \in {"add_stock", "remove_stock"},
       p \in ProductIds, l \in LocationIds, q \in Quantities : Adjust(s, op, p, l, q)

NotifyAlertCall == \E s \in NotifySessions : AlertCall(s)

NotifyPostReturns == \E s \in NotifySessions : PostReturns(s)

NotifyReturn == \E s \in NotifySessions : Return(s)

InitNotify ==
    /\ products = {1}
    /\ locations = {1}
    /\ stock = {}
    /\ alerts = <<>>
    /\ response = NoRequest
    /\ calls = 0
    /\ ledger = NoLedger
    /\ sessions = [s \in NotifySessions |-> Idle]
    /\ gateway \in [url : UrlValues, endpoint : {"responsive", "silent"},
                    posts : {<<>>}, log : {<<>>}, outcome : {None},
                    returned : {None}]
    /\ product_rows = StoredProducts(products)
    /\ location_rows = StoredLocations(locations)

NextNotify == NotifyAdjust \/ NotifyAlertCall \/ NotifyPostReturns \/ NotifyReturn

\* the code of a handler runs on once it can: of what it waits for, only the
\* answer of the notification service is not in its hands
HandlerRuns == NotifyAlertCall \/ NotifyPostReturns \/ NotifyReturn

SpecNotify == InitNotify /\ [][NextNotify]_vars /\ WF_vars(HandlerRuns)

(***************************************************************************)
(* Properties of the alert.                                                *)
(***************************************************************************)
\* the last element of a non-empty sequence
Last(seq) == seq[Len(seq)]

\* C11: whatever the POST meets (connection error, non-2xx answer, a body
\* that is no JSON), send_low_stock_alert returns instead of raising, and the
\* handler then returns the updated Stock, which is the committed row.
C11_DeliveryFailureAbsorbed ==
    [][\A s \in NotifySessions :
        LET req == sessions[s].request
        IN  /\ (sessions[s].pc = "post" /\ sessions'[s].pc # "post")
                 => /\ sessions'[s].pc = "return"
                    /\ stock' = stock
                    /\ response' = response
            /\ (sessions[s].pc # "idle" /\ sessions'[s].pc = "idle")
                 => /\ response'.request = req
                    /\ IsStock(response', sessions[s].stock.quantity)
                    /\ response'.body \in stock'
                    /\ stock' = stock]_vars

\* the first adjustment of a behaviour ended below 20, its POST met a
\* connection error, and it was answered with the Stock that is stored
C11_Witness ==
    /\ calls = 1
    /\ Len(alerts) = 1
    /\ gateway.outcome # None
    /\ gateway.outcome.kind = "ConnectionError"
    /\ response.status_code = 200
    /\ response.body \in stock
    /\ response.body.quantity < 20

\* C12: send_low_stock_alert is called only once the write is committed: the
\* stock it is given, and the ids and quantity its payload carries, are those
\* of the committed row of the adjusted pair.
C12_AlertCarriesCommittedQuantity ==
    [][\A s \in NotifySessions :
        LET req == sessions[s].request
            row == get_stock(stock, req.product_id, req.location_id)
        IN  alerts' # alerts
              => /\ row # None
                 /\ stock' = stock
                 /\ alerts' = Append(alerts, row)
                 /\ gateway'.posts # gateway.posts
                      => /\ Len(gateway'.posts) = Len(gateway.posts) + 1
                         /\ Last(gateway'.posts).title
                              = [product_id |-> row.product_id,
                                 location_id |-> row.location_id]
                         /\ Last(gateway'.posts).message
                              = [quantity |-> row.quantity]]_vars

\* an outbound call took a row from 20 to 19 and its alert is being POSTed
C12_Witness ==
    /\ \E s \in NotifySessions :
         /\ sessions[s].pc = "post"
         /\ sessions[s].request.op = "remove_stock"
    /\ Len(alerts) = 1
    /\ alerts[1].quantity = 19
    /\ alerts[1] \in stock
    /\ Len(gateway.posts) = 1
    /\ gateway.posts[1].message.quantity = 19

\* C16: every adjustment whose store write completed eventually returns, also
\* when the notification service never answers.
C16_AdjustmentReturns ==
    \A s \in NotifySessions :
        (sessions[s].pc \in {"alert", "post", "return"}) ~> (sessions[s].pc = "idle")

\* C17: without NOTIFICATION_SERVICE_URL send_low_stock_alert logs a critical
\* 'notification-url-undefined', POSTs nothing and returns None, and the
\* adjustment that called it returns its Stock.
C17_NoUrlNoOp ==
    [][\A s \in NotifySessions :
        /\ (sessions[s].pc = "alert" /\ sessions'[s].pc # "alert"
              /\ gateway.url \in {None, [value |-> ""]})
             => /\ gateway'.posts = gateway.posts
                /\ gateway'.log
                     = Append(gateway.log, <<"critical", "notification-url-undefined">>)
                /\ gateway'.returned = None
                /\ gateway'.outcome = gateway.outcome
                /\ sessions'[s].pc = "return"
        /\ (sessions[s].pc = "return" /\ sessions'[s].pc # "return"
              /\ gateway.url \in {None, [value |-> ""]})
             => /\ IsStock(response', sessions[s].stock.quantity)
                /\ response'.body \in stock']_vars

\* with no url, an adjustment ending below 20 was answered with its Stock;
\* the alert was called, nothing was POSTed, the critical line was logged
C17_Witness ==
    /\ gateway.url = None
    /\ calls = 1
    /\ Len(alerts) = 1
    /\ gateway.posts = <<>>
    /\ gateway.log = << <<"critical", "notification-url-undefined">> >>
    /\ response.status_code = 200
    /\ response.body.quantity < 20

\* C18: when the POST raises a connection error with message M,
\* send_low_stock_alert logs 'alert-failed' and returns status 'error',
\* message 'Failed to deliver notification', details M.
C18_UnreachableDetails ==
    (gateway # None /\ gateway.outcome # None /\ gateway.outcome.kind = "ConnectionError")
      => /\ gateway.returned
              = [status |-> "error", message |-> "Failed to deliver notification",
                 details |-> gateway.outcome.message]
         /\ Last(gateway.log) = <<"exception", "alert-failed">>

\* C19: send_low_stock_alert returns the JSON body of the service's answer,
\* the success body of a 200 and the error body of a 500.
C19_ReturnsServiceBody ==
    (gateway # None /\ gateway.outcome # None /\ gateway.outcome.kind = "response"
       /\ gateway.outcome.json # None)
      => gateway.returned = gateway.outcome.json

(***************************************************************************)
(* Two requests at a time, each in its own database session: a handler     *)
(* reads (get_by_id, get_stock, the checks on the loaded object) and later *)
(* writes (create_stock or update_stock_quantity, with the commit), and    *)
(* the other request may run in between.                                   *)
(***************************************************************************)
ConcSessions == {1, 2}

\* requests being served
InFlight == {s \in DOMAIN sessions : sessions[s].pc # "idle"}

\* slip: the table has no primary key
pk_stock_conflict_unenforced(rows, stock_data) == FALSE

\* PrimaryKeyConstraint("product_id", "location_id", name="pk_stock"): the
\* INSERT of stock_data meets a row with its key
pk_stock_conflict(rows, stock_data) ==
    \E r \in rows : /\ r.product_id = stock_data.product_id
                    /\ r.location_id = stock_data.location_id

\* sql_exception_handler: the answer to an SQLAlchemyError
DatabaseError ==
    ErrorResponse(HTTP_500_INTERNAL_SERVER_ERROR, "Database operation failed")

\* the handler up to its store write: the early returns, and get_stock, whose
\* object the session keeps
Read(s, op, product_id, location_id, quantity) ==
    LET early == IF op = "add_stock"
                   THEN add_stock_validate(product_id, location_id, quantity)
                   ELSE remove_stock_validate(product_id, location_id, quantity)
    IN  /\ sessions[s].pc = "idle"
        /\ calls + Cardinality(InFlight) < MaxCalls
        /\ IF early # OkSoFar
             THEN /\ Served(op, product_id, location_id, quantity, early)
                  /\ UNCHANGED sessions
             ELSE /\ sessions' = [sessions EXCEPT ![s] =
                        [pc |-> "write",
                         request |-> Request(op, product_id, location_id, quantity),
                         stock |-> get_stock(stock, product_id, location_id)]]
                  /\ UNCHANGED <<response, calls, ledger>>
        /\ UNCHANGED <<catalog, stock, alerts, gateway>>

\* the store write on the object the session loaded, its commit and refresh,
\* then the threshold check and the return
Write(s) ==
    LET req == sessions[s].request
        found == sessions[s].stock
        stock_data == [product_id |-> req.product_id, location_id |-> req.location_id,
                       quantity |-> req.quantity]
        rejected == found = None /\ pk_stock_conflict(stock, stock_data)
        committed == IF req.op = "add_stock"
                       THEN add_stock_write(stock, found, req.product_id,
                                            req.location_id, req.quantity)
                       ELSE remove_stock_write(stock, found, req.quantity)
        result == refresh(committed, req.product_id, req.location_id)
    IN  /\ sessions[s].pc = "write"
        /\ IF rejected
             THEN /\ Served(req.op, req.product_id, req.location_id, req.quantity,
                            DatabaseError)
                  /\ UNCHANGED <<stock, alerts>>
             ELSE /\ stock' = committed
                  /\ alerts' = notify_if_low(alerts, result)
                  /\ Served(req.op, req.product_id, req.location_id, req.quantity,
                            StockResponse(result))
        /\ sessions' = [sessions EXCEPT ![s] = Idle]
        /\ UNCHANGED <<catalog, gateway>>

ConcRead ==
    \E s \in ConcSessions, op \in {"add_stock", "remove_stock"},
       p \in ProductIds, l \in LocationIds, q \in Quantities : Read(s, op, p, l, q)

ConcWrite == \E s \in ConcSessions : Write(s)

InitConc ==
    /\ products = {1}
    /\ locations = {1}
    /\ stock = {}
    /\ alerts = <<>>
    /\ response = NoRequest
    /\ calls = 0
    /\ ledger = NoLedger
    /\ sessions = [s \in ConcSessions |-> Idle]
    /\ gateway = NoGateway
    /\ product_rows = StoredProducts(products)
    /\ location_rows = StoredLocations(locations)

NextConc == ConcRead \/ ConcWrite

SpecConc == InitConc /\ [][NextConc]_vars

(***************************************************************************)
(* Properties of concurrent adjustments.                                   *)
(***************************************************************************)
\* C14: in every reachable state, also after two add_stock requests for one
\* absent pair both found no row before either created it, the table holds
\* at most one Stock row per (product_id, location_id).
C14_OneRowPerPair ==
    \A p \in ProductIds, l \in LocationIds : Cardinality(RowsFor(stock, p, l)) <= 1

\* two inbound requests found no row for the pair; one created it, the INSERT
\* of the other was refused by the primary key
C14_Witness ==
    LET req == response.request
    IN  /\ req.op = "add_stock"
        /\ response.status_code = 500
        /\ Cardinality(RowsFor(stock, req.product_id, req.location_id)) = 1
        /\ InFlight = {}

\* C15: when two adjustments of one existing row interleave their get_stock
\* and update_stock_quantity and both succeed, the stored quantity is the
\* initial one plus both deltas: once no request is in flight, every row
\* holds the sum of the deltas of the successful adjustments of its pair.
C15_NoLostUpdate ==
    InFlight = {}
      => \A s \in stock : s.quantity = ledger[<<s.product_id, s.location_id>>]

\* ---------------------------------------------------------------------------
\* Creating products and locations.  A str is a sequence of characters; the
\* requests carry padded, empty and plain values.
\* ---------------------------------------------------------------------------

HTTP_409_CONFLICT == 409

SkuValues == {<<>>, <<" ">>, <<"A">>, <<" ", "A">>, <<"A", " ">>, <<"A", "A">>}
NameValues == {<<" ">>, <<"N">>}
AisleValues == {<<>>, <<"A">>, <<" ", "A">>, <<"A", "A">>}
BinValues == {<<" ">>, <<"B">>, <<"B", " ">>}

\* str.strip(): the str without its leading and trailing whitespace
RECURSIVE lstrip(_)
lstrip(s) == IF s # <<>> /\ Head(s) = " " THEN lstrip(Tail(s)) ELSE s

RECURSIVE rstrip(_)
rstrip(s) ==
    IF s # <<>> /\ s[Len(s)] = " " THEN rstrip(SubSeq(s, 1, Len(s) - 1)) ELSE s

strip(s) == rstrip(lstrip(s))

\* the id the store gives to the next row of a table
next_id(rows) ==
    IF rows = {} THEN 1
    ELSE (CHOOSE r \in rows : \A o \in rows : o.id <= r.id).id + 1

\* slip: the filter is on the name column
get_by_sku_name_column(rows, sku) ==
    IF \E r \in rows : r.name = sku
        THEN CHOOSE r \in rows : r.name = sku
        ELSE None

\* product_repository.get_by_sku: the Product with this sku, or None
get_by_sku(rows, sku) ==
    IF \E r \in rows : r.sku = sku
        THEN CHOOSE r \in rows : r.sku = sku
        ELSE None

\* location_repository.exists
exists(rows, aisle, bin) == \E r \in rows : r.aisle = aisle /\ r.bin = bin

\* the unique constraint on products.sku refuses the insert of this sku
sku_unique_conflict(rows, sku) == \E r \in rows : r.sku = sku

\* product_repository.create_product: the Product added, with the id the store
\* gave it
create_product(rows, product_data) ==
    [id |-> next_id(rows), sku |-> product_data.sku, name |-> product_data.name]

\* location_repository.create_location
create_location(rows, location_data) ==
    [id |-> next_id(rows), aisle |-> location_data.aisle,
     bin |-> location_data.bin]

\* a returned Product or Location, serialised through its response model
CreatedResponse(row) == [status_code |-> HTTP_200_OK, detail |-> "", body |-> row]

\* the early returns of create_product_endpoint, in the order of the code
create_product_validate(product) ==
    LET sku == strip(product.sku)
        name == strip(product.name)
    IN  IF sku = <<>>
            THEN ErrorResponse(HTTP_400_BAD_REQUEST, "SKU cannot be empty")
        ELSE IF get_by_sku(product_rows, sku) # None
            THEN ErrorResponse(HTTP_409_CONFLICT,
                               "Product with this SKU already exists")
        ELSE IF name = <<>>
            THEN ErrorResponse(HTTP_400_BAD_REQUEST,
                               "Product name cannot be empty")
        ELSE OkSoFar

\* the early returns of create_location_endpoint, in the order of the code
create_location_validate(location) ==
    LET aisle == strip(location.aisle)
        bin_code == strip(location.bin)
    IN  IF aisle = <<>>
            THEN ErrorResponse(HTTP_400_BAD_REQUEST,
                               "Aisle identifier cannot be empty")
        ELSE IF bin_code = <<>>
            THEN ErrorResponse(HTTP_400_BAD_REQUEST,
                               "Bin identifier cannot be empty")
        ELSE IF exists(location_rows, aisle, bin_code)
            THEN ErrorResponse(HTTP_400_BAD_REQUEST, "Location already exists")
        ELSE OkSoFar

\* the answer to a create request, kept with the request
Answered(request, result) ==
    /\ response' = [request |-> request,
                    status_code |-> result.status_code,
                    detail |-> result.detail,
                    body |-> result.body]
    /\ calls' = calls + 1

\* POST /products: the product is stored as it was sent, after the checks made
\* on its trimmed sku and name; an insert the store refuses is answered by
\* sql_exception_handler
create_product_endpoint(product) ==
    LET early == create_product_validate(product)
        request == [op |-> "create_product", sku |-> product.sku,
                    name |-> product.name]
        row == create_product(product_rows, product)
    IN  /\ calls < MaxCalls
        /\ IF early # OkSoFar
             THEN /\ Answered(request, early)
                  /\ UNCHANGED <<products, product_rows>>
           ELSE IF sku_unique_conflict(product_rows, product.sku)
             THEN /\ Answered(request, DatabaseError)
                  /\ UNCHANGED <<products, product_rows>>
           ELSE /\ product_rows' = product_rows \cup {row}
                /\ products' = products \cup {row.id}
                /\ Answered(request, CreatedResponse(row))
        /\ UNCHANGED <<locations, location_rows, stock, alerts, ledger,
                       sessions, gateway>>

\* POST /locations: the location is stored as it was sent, after the checks
\* made on its trimmed aisle and bin
create_location_endpoint(location) ==
    LET early == create_location_validate(location)
        request == [op |-> "create_location", aisle |-> location.aisle,
                    bin |-> location.bin]
        row == create_location(location_rows, location)
    IN  /\ calls < MaxCalls
        /\ IF early # OkSoFar
             THEN /\ Answered(request, early)
                  /\ UNCHANGED <<locations, location_rows>>
             ELSE /\ location_rows' = location_rows \cup {row}
                  /\ locations' = locations \cup {row.id}
                  /\ Answered(request, CreatedResponse(row))
        /\ UNCHANGED <<products, product_rows, stock, alerts, ledger,
                       sessions, gateway>>

CreateProduct ==
    \E sku \in SkuValues, name \in NameValues :
        create_product_endpoint([sku |-> sku, name |-> name])

CreateLocation ==
    \E aisle \in AisleValues, bin \in BinValues :
        create_location_endpoint([aisle |-> aisle, bin |-> bin])

\* the tables are empty, or hold one product and one location
InitCatalog ==
    /\ products \in {{}, {1}}
    /\ locations \in {{}, {1}}
    /\ stock = {}
    /\ alerts = <<>>
    /\ response = NoRequest
    /\ calls = 0
    /\ ledger = NoLedger
    /\ sessions = NoSessions
    /\ gateway = NoGateway
    /\ product_rows = StoredProducts(products)
    /\ location_rows = StoredLocations(locations)

NextCatalog == CreateProduct \/ CreateLocation

SpecCatalog == InitCatalog /\ [][NextCatalog]_vars

\* ---------------------------------------------------------------------------
\* Claims about duplicate keys
\* ---------------------------------------------------------------------------

\* the sku of the request, trimmed, is the sku of a stored product
SkuTaken(req) ==
    /\ req.op = "create_product"
    /\ strip(req.sku) # <<>>
    /\ \E r \in product_rows : r.sku = strip(req.sku)

\* the (aisle, bin) of the request, trimmed, is that of a stored location
PairTaken(req) ==
    /\ req.op = "create_location"
    /\ strip(req.aisle) # <<>>
    /\ strip(req.bin) # <<>>
    /\ \E r \in location_rows :
           r.aisle = strip(req.aisle) /\ r.bin = strip(req.bin)

\* the insert of the request is refused by the unique constraint on the sku
SkuRefused(req) ==
    /\ req.op = "create_product"
    /\ \E r \in product_rows : r.sku = req.sku

\* C20, as stated: every create request that meets a stored product with its
\* sku, or a stored location with its (aisle, bin), is answered with HTTP 409
C20_DuplicateKeyIs409 ==
    [][LET req == response'.request
       IN  (SkuTaken(req) \/ SkuRefused(req) \/ PairTaken(req))
           => response'.status_code = 409]_vars

\* C20, amended: a product create whose trimmed sku is the sku of a stored
\* product is answered with HTTP 409 and "Product with this SKU already
\* exists"; a location create whose trimmed (aisle, bin) is that of a stored
\* location is answered with HTTP 400 and "Location already exists"; neither
\* call changes the products or the locations
C20_DuplicateKeyRejected ==
    [][LET req == response'.request
       IN  /\ SkuTaken(req)
               => /\ IsError(response', 409,
                             "Product with this SKU already exists")
                  /\ UNCHANGED catalog
           /\ PairTaken(req)
               => /\ IsError(response', 400, "Location already exists")
                  /\ UNCHANGED catalog]_vars

\* a location was created by the first call, and the second call, which sent
\* the same aisle and bin with padding, was answered with 400 and stored nothing
C20_Witness ==
    /\ response.request.op = "create_location"
    /\ response.request.aisle = <<" ", "A">>
    /\ response.request.bin = <<"B", " ">>
    /\ IsError(response, 400, "Location already exists")
    /\ location_rows = {[id |-> 1, aisle |-> <<"A">>, bin |-> <<"B">>]}
    /\ calls = 2

\* the (aisle, bin) of the request, as sent, is that of a stored location
PairStored(req) ==
    /\ req.op = "create_location"
    /\ \E r \in location_rows : r.aisle = req.aisle /\ r.bin = req.bin

\* C21: a location create whose (aisle, bin) equals that of a stored location
\* is answered with HTTP 400 and "Location already exists", and the stored
\* locations are unchanged by the call
C21_DuplicateLocationRejected ==
    [][PairStored(response'.request)
           => /\ IsError(response', 400, "Location already exists")
              /\ location_rows' = location_rows
              /\ locations' = locations]_vars

\* ---------------------------------------------------------------------------
\* Store failures.  A store call of a handler that raises a SQLAlchemyError
\* (the store is unreachable, or it refuses the statement) ends the handler:
\* nothing is committed and sql_exception_handler answers.
\* ---------------------------------------------------------------------------

\* the handlers that reach the store through get_db
StoreHandlers == {"create_product", "create_location", "add_stock", "remove_stock"}

\* the errors of the store that SQLAlchemy raises as SQLAlchemyError
StoreFaults == {"OperationalError", "TimeoutError"}

\* slip: the handler hands the text of the exception to the client
sql_exception_handler_verbose(exc) ==
    ErrorResponse(HTTP_500_INTERNAL_SERVER_ERROR, exc)

\* main.sql_exception_handler, for a request outside /health
sql_exception_handler(exc) == DatabaseError

\* a request to one of the handlers whose first store call raises
StoreFails ==
    \E op \in StoreHandlers, exc \in StoreFaults :
        /\ calls < MaxCalls
        /\ Answered([op |-> op, fault |-> exc], sql_exception_handler(exc))
        /\ UNCHANGED <<catalog, stock, alerts, ledger, sessions, gateway>>

NextStore == CreateProduct \/ CreateLocation \/ StoreFails

SpecStore == InitCatalog /\ [][NextStore]_vars

\* the request met a store call that raised: the store was not reachable, or
\* it refused the insert that the checks of the handler had let through
StoreFailed(req) ==
    \/ "fault" \in DOMAIN req
    \/ /\ SkuRefused(req)
       /\ create_product_validate([sku |-> req.sku, name |-> req.name]) = OkSoFar

NewProduct ==
    \E sku \in {<<"A">>, <<"A", "A">>} :
        create_product_endpoint([sku |-> sku, name |-> <<"N">>])

\* POST /locations with a plain aisle and bin
NewLocation ==
    \E aisle \in {<<"A">>, <<"A", "A">>} :
        create_location_endpoint([aisle |-> aisle, bin |-> <<"B">>])

NextInventory == NewProduct \/ NewLocation \/ AddStock \/ RemoveStock

SpecInventory == InitCatalog /\ [][NextInventory]_vars

\* C23: in every reachable state the product_id of every Stock row is the id
\* of a stored Product and its location_id is the id of a stored Location
C23_NoDanglingReference ==
    \A s \in stock :
        /\ s.product_id \in products
        /\ \E r \in product_rows : r.id = s.product_id
        /\ s.location_id \in locations
        /\ \E r \in location_rows : r.id = s.location_id

\* a row was stored for product 2 by an inbound call made after a create
\* request had stored product 2
C23_Witness ==
    /\ \E s \in stock : s.product_id = 2 /\ s.location_id = 1
    /\ \E r \in product_rows : r.id = 2 /\ r.sku = <<"A", "A">>
    /\ calls = 3
    /\ ledger[<<2, 1>>] = 1

\* ---------------------------------------------------------------------------
\* Claims about the life of a Stock row
\* ---------------------------------------------------------------------------

\* the (product, location) pairs that have a row
Pairs(rows) == {<<s.product_id, s.location_id>> : s \in rows}

\* C24: a pair that has a Stock row has one in every later state, and a pair
\* gets its row only from an add_stock call for that pair answered with 200
C24_RowNeverRemoved ==
    [][/\ Pairs(stock) \subseteq Pairs(stock')
       /\ \A pair \in Pairs(stock') \ Pairs(stock) :
              /\ response'.request.op = "add_stock"
              /\ response'.status_code = 200
              /\ pair = <<response'.request.product_id,
                          response'.request.location_id>>]_vars

\* an outbound call drained the row that the call before it had created: the
\* row is still there, with quantity 0
C24_Witness ==
    /\ calls = 2
    /\ response.request.op = "remove_stock"
    /\ IsStock(response, 0)
    /\ Pairs(stock) = {<<response.request.product_id,
                         response.request.location_id>>}

\* ---------------------------------------------------------------------------
\* Creating and updating locations.
\* ---------------------------------------------------------------------------

\* location_repository.update_location: setattr for each key; commit; refresh.
\* Yields the table after the commit.
update_location(rows, existing_location, update_data) ==
    (rows \ {existing_location})
        \cup {[existing_location EXCEPT !.aisle = update_data.aisle,
                                        !.bin = update_data.bin]}

\* location_repository.get_by_id on the rows of the table
get_location_row(rows, location_id) ==
    IF \E r \in rows : r.id = location_id
        THEN CHOOSE r \in rows : r.id = location_id
        ELSE None

\* PUT /locations/{location_id}: the values are set as they were sent
update_location_endpoint(location_id, location) ==
    LET existing_location == get_location_row(location_rows, location_id)
        request == [op |-> "update_location", location_id |-> location_id,
                    aisle |-> location.aisle, bin |-> location.bin]
        committed == update_location(location_rows, existing_location, location)
    IN  /\ calls < MaxCalls
        /\ IF existing_location = None
             THEN /\ Answered(request,
                              ErrorResponse(HTTP_404_NOT_FOUND, "Location not found"))
                  /\ UNCHANGED location_rows
             ELSE /\ location_rows' = committed
                  /\ Answered(request,
                              CreatedResponse(get_location_row(committed, location_id)))
        /\ UNCHANGED <<products, product_rows, locations, stock, alerts, ledger,
                       sessions, gateway>>

UpdateLocation ==
    \E location_id \in LocationIds, aisle \in AisleValues, bin \in BinValues :
        update_location_endpoint(location_id, [aisle |-> aisle, bin |-> bin])

NextLocations == CreateLocation \/ UpdateLocation

SpecLocations == InitCatalog /\ [][NextLocations]_vars

\* C25: every stored Location has an aisle and a bin that are non-empty after
\* trimming, and no two stored Locations have the same (aisle, bin)
C25_LocationsValidAndUnique ==
    /\ \A r \in location_rows : strip(r.aisle) # <<>> /\ strip(r.bin) # <<>>
    /\ \A r, o \in location_rows :
           (r.aisle = o.aisle /\ r.bin = o.bin) => r.id = o.id

\* C26: every stored Product has a sku and a name that are non-empty after
\* trimming, and no two stored Products have skus that are equal after trimming
C26_SkusValidAndUnique ==
    /\ \A r \in product_rows : strip(r.sku) # <<>> /\ strip(r.name) # <<>>
    /\ \A r, o \in product_rows : strip(r.sku) = strip(o.sku) => r.id = o.id

\* ---------------------------------------------------------------------------
\* Health reporting (routers/health.py).  A components dict is the sequence of
\* its items in insertion order; timestamps and response times are left out.
\* ---------------------------------------------------------------------------

HTTP_503_SERVICE_UNAVAILABLE == 503

ComponentNames == {"application", "database"}
ComponentStatuses == {"UP", "DOWN", "DEGRADED"}

\* what db.execute(text("SELECT 1")) does: it returns, or it raises
DbOutcomes == {"ok", "SQLAlchemyError", "Exception"}

\* the dicts handed to create_health_response: no component, one, or two;
\* the Optional argument is None or holds one of them as its value
ComponentDicts ==
    {<<>>}
    \cup {<<[name |-> n, status |-> st]>> :
              n \in ComponentNames, st \in ComponentStatuses}
    \cup {<<[name |-> "application", status |-> a],
            [name |-> "database", status |-> d]>> :
              a \in ComponentStatuses, d \in ComponentStatuses}
    \cup {<<[name |-> "database", status |-> d],
            [name |-> "application", status |-> a]>> :
              a \in ComponentStatuses, d \in ComponentStatuses}

\* check_database_connectivity: UP when the query returns, DOWN when it raises
check_database_connectivity(db) ==
    IF db = "ok"
        THEN [name |-> "database", status |-> "UP"]
        ELSE [name |-> "database", status |-> "DOWN"]

\* the loop of create_health_response from item i on: DOWN at the first
\* component whose status is not UP
RECURSIVE overall_status(_, _)
overall_status(components, i) ==
    IF i > Len(components) THEN "UP"
    ELSE IF components[i].status # "UP" THEN "DOWN"
    ELSE overall_status(components, i + 1)

\* slip: only the first component is looked at
create_health_response_first_only(components) ==
    LET given == IF components = None
                   THEN <<[name |-> "application", status |-> "UP"]>>
                   ELSE components.value
        overall == IF given # <<>> /\ given[1].status # "UP" THEN "DOWN" ELSE "UP"
    IN  [response |-> [status |-> overall, components |-> given],
         is_healthy |-> overall = "UP"]

\* create_health_response: (response, is_healthy)
create_health_response(components) ==
    LET given == IF components = None
                   THEN <<[name |-> "application", status |-> "UP"]>>
                   ELSE components.value
        overall == overall_status(given, 1)
    IN  [response |-> [status |-> overall, components |-> given],
         is_healthy |-> overall = "UP"]

\* readiness_check, startup_check and health_check: the same body
health_check(db) ==
    LET components == [value |-> <<[name |-> "application", status |-> "UP"],
                                   check_database_connectivity(db)>>]
        made == create_health_response(components)
    IN  IF ~made.is_healthy
          THEN [status_code |-> HTTP_503_SERVICE_UNAVAILABLE, detail |-> "",
                body |-> [detail |-> made.response]]
          ELSE [status_code |-> HTTP_200_OK, detail |-> "", body |-> made.response]

\* liveness_check
liveness_check ==
    [status_code |-> HTTP_200_OK, detail |-> "", body |-> [status |-> "UP"]]

\* a call of create_health_response
CreateHealthResponse ==
    \E components \in {[value |-> c] : c \in ComponentDicts} \cup {None} :
        /\ calls < MaxCalls
        /\ Answered([op |-> "create_health_response", components |-> components],
                    [status_code |-> HTTP_200_OK, detail |-> "",
                     body |-> create_health_response(components)])
        /\ UNCHANGED <<catalog, stock, alerts, ledger, sessions, gateway>>

\* GET /health, /health/readiness, /health/startup
HealthCheck ==
    \E path \in {"/health", "/health/readiness", "/health/startup"},
       db \in DbOutcomes :
        /\ calls < MaxCalls
        /\ Answered([op |-> path, db |-> db], health_check(db))
        /\ UNCHANGED <<catalog, stock, alerts, ledger, sessions, gateway>>

\* GET /health/liveness
LivenessCheck ==
    \E db \in DbOutcomes :
        /\ calls < MaxCalls
        /\ Answered([op |-> "/health/liveness", db |-> db], liveness_check)
        /\ UNCHANGED <<catalog, stock, alerts, ledger, sessions, gateway>>

NextHealth == CreateHealthResponse \/ HealthCheck \/ LivenessCheck

SpecHealth == InitCatalog /\ [][NextHealth]_vars

\* every component of the dict is UP
AllUp(components) ==
    \A i \in 1..Len(components) : components[i].status = "UP"

\* C27: create_health_response reports UP exactly when every component is UP;
\* /health, /health/readiness and /health/startup answer 503 exactly when the
\* overall status is DOWN, which is when the database check failed, and 200
\* with status UP otherwise; /health/liveness always answers 200 with UP
C27_HealthStatus ==
    [][LET req == response'.request
           r == response'
       IN  /\ (req.op = "create_health_response" /\ req.components # None)
               => /\ (r.body.response.status = "UP")
                         <=> AllUp(req.components.value)
                  /\ r.body.response.status \in {"UP", "DOWN"}
                  /\ r.body.is_healthy <=> AllUp(req.components.value)
                  /\ r.body.response.components = req.components.value
           /\ (req.op = "create_health_response" /\ req.components = None)
               => /\ r.body.response.status = "UP"
                  /\ r.body.is_healthy
           /\ req.op \in {"/health", "/health/readiness", "/health/startup"}
               => IF req.db = "ok"
                    THEN r.status_code = 200 /\ r.body.status = "UP"
                    ELSE /\ r.status_code = 503
                         /\ r.body.detail.status = "DOWN"
                         /\ r.body.detail.components[1] =
                                [name |-> "application", status |-> "UP"]
           /\ req.op = "/health/liveness"
               => r.status_code = 200 /\ r.body.status = "UP"]_vars

\* /health was asked while the database check failed: 503 and DOWN, with the
\* application component UP
C27_Witness ==
    /\ response.request.op = "/health"
    /\ response.request.db = "SQLAlchemyError"
    /\ response.status_code = 503
    /\ response.body.detail.status = "DOWN"
    /\ response.body.detail.components[1].status = "UP"
    /\ response.body.detail.components[2].status = "DOWN"

\* ---------------------------------------------------------------------------
\* Claims about concurrent adjustments of one pair
\* ---------------------------------------------------------------------------

\* C28: with the reads, checks and writes of concurrent add_stock and
\* remove_stock requests interleaved in any order, every Stock row of the
\* table, and every Stock object a request has loaded, has quantity >= 0
C28_ConcurrentQuantityNeverNegative ==
    /\ \A r \in stock : r.quantity >= 0
    /\ \A s \in InFlight :
           sessions[s].stock # None => sessions[s].stock.quantity >= 0

\* two outbound calls of 1 both passed the check on a row of 1 and both were
\* answered with a Stock: the row is at 0 while the answered changes sum to -1
C28_Witness ==
    /\ InFlight = {}
    /\ calls = 3
    /\ stock = {[product_id |-> 1, location_id |-> 1, quantity |-> 0]}
    /\ ledger[<<1, 1>>] = -1
    /\ response.request.op = "remove_stock"
    /\ response.status_code = 200

\* C29: an add_stock request with q > 0 for an existing product and location
\* is answered with a Stock, also when another request for the same pair is
\* served at the same time
C29_InboundAlwaysSucceeds ==
    [][LET req == response'.request
       IN  (/\ req.op = "add_stock"
            /\ req.quantity > 0
            /\ req.product_id \in products
            /\ req.location_id \in locations
            /\ calls' = calls + 1)
           => /\ response'.status_code = 200
              /\ \E r \in RowsFor(stock', req.product_id, req.location_id) :
                     r.quantity >= req.quantity]_vars

\* ---------------------------------------------------------------------------
\* Listing the stock between adjustments.
\* ---------------------------------------------------------------------------

\* GET /stock: every row of the table, serialised through StockResponse
list_stock_endpoint ==
    /\ calls < MaxCalls
    /\ response' = [request |-> Request("list_stock", 0, 0, 0),
                    status_code |-> HTTP_200_OK,
                    detail |-> "",
                    body |-> {StockResponse(s).body : s \in list_stock(stock)}]
    /\ calls' = calls + 1
    /\ UNCHANGED <<catalog, stock, alerts, ledger, sessions, gateway>>

NextListing == AddStock \/ RemoveStock \/ list_stock_endpoint

SpecListing == Init /\ [][NextListing]_vars

\* the rows of the table for the pairs other than (product_id, location_id)
OtherRows(rows, product_id, location_id) ==
    {s \in rows : s.product_id # product_id \/ s.location_id # location_id}

\* C30: an add_stock or remove_stock call on a pair, answered with a Stock or
\* with an error, leaves the rows of all other pairs and the products and
\* locations as they were; list_stock_endpoint changes nothing and returns
\* exactly the rows of the table
C30_Frame ==
    [][LET req == response'.request
       IN  /\ req.op \in {"add_stock", "remove_stock"}
               => /\ OtherRows(stock', req.product_id, req.location_id)
                       = OtherRows(stock, req.product_id, req.location_id)
                  /\ UNCHANGED catalog
           /\ req.op = "list_stock"
               => /\ UNCHANGED <<catalog, stock, alerts>>
                  /\ response'.status_code = 200
                  /\ response'.body = stock]_vars

\* two inbound calls stored rows for one product at two locations, the second
\* leaving the row of the first as it was; the listing then returned both rows
C30_Witness ==
    /\ calls = 3
    /\ response.request.op = "list_stock"
    /\ response.body = stock
    /\ \E s, o \in stock : /\ s.product_id = o.product_id
                           /\ s.location_id # o.location_id

====
